---- MODULE Spec2Model ----
(***************************************************************************)
(* The server-sent-event reader of src/src/app/posts/postsApi.ts           *)
(* (readSseStream, its dispatch closure and streamPostGeneration).         *)
(*                                                                         *)
(* A byte is a string: an ASCII byte is its one character, the two bytes   *)
(* of the UTF-8 encoding of U+00E9 are "xC3" and "xA9".  A decoded text is *)
(* a sequence of code points: an ASCII one is its character, the others    *)
(* are "U+00E9" and the replacement character "U+FFFD".                    *)
(***************************************************************************)
EXTENDS Integers, Sequences, FiniteSets, TLC

LeadByte == "xC3"
ContByte == "xA9"
EAcute == "U+00E9"
Replacement == "U+FFFD"
LF == "\n"
CR == "\r"

(***************************************************************************)
(* TextDecoder('utf-8').decode(value, {stream: true}): a lead byte at the  *)
(* end of a chunk is kept for the next call, a lead byte followed by       *)
(* anything but a continuation byte decodes to U+FFFD and that byte is     *)
(* read again, a continuation byte with no lead decodes to U+FFFD.         *)
(***************************************************************************)
RECURSIVE DecodeFrom(_, _, _, _)
DecodeFrom(bytes, i, held, out) ==
  IF i > Len(bytes) THEN [text |-> out, pending |-> held]
  ELSE IF held # <<>>
    THEN IF bytes[i] = ContByte
           THEN DecodeFrom(bytes, i + 1, <<>>, Append(out, EAcute))
           ELSE DecodeFrom(bytes, i, <<>>, Append(out, Replacement))
    ELSE IF bytes[i] = LeadByte
           THEN DecodeFrom(bytes, i + 1, <<LeadByte>>, out)
           ELSE IF bytes[i] = ContByte
                  THEN DecodeFrom(bytes, i + 1, <<>>, Append(out, Replacement))
                  ELSE DecodeFrom(bytes, i + 1, <<>>, Append(out, bytes[i]))

Decode(held, chunk) == DecodeFrom(chunk, 1, held, <<>>)

(***************************************************************************)
(* String.prototype.split(/\r?\n/): the pieces between the terminators,    *)
(* one more piece than there are terminators.                              *)
(***************************************************************************)
RECURSIVE SplitFrom(_, _, _, _)
SplitFrom(text, i, cur, acc) ==
  IF i > Len(text) THEN Append(acc, cur)
  ELSE IF text[i] = LF
    THEN SplitFrom(text, i + 1, <<>>,
           Append(acc, IF cur # <<>> /\ cur[Len(cur)] = CR
                         THEN SubSeq(cur, 1, Len(cur) - 1) ELSE cur))
    ELSE SplitFrom(text, i + 1, Append(cur, text[i]), acc)

SplitLines(text) == SplitFrom(text, 1, <<>>, <<>>)

\* lines.pop() ?? '' leaves the pieces before the last one as the lines ...
CompleteLines(pieces) == SubSeq(pieces, 1, Len(pieces) - 1)

\* A framer that forgets the unfinished line at the end of a chunk.
RemainderDropped(pieces) == <<>>

\* ... and the last piece as the new buffer.
Remainder(pieces) == pieces[Len(pieces)]

(***************************************************************************)
(* String helpers: startsWith, slice(n), trim, join('\n').                 *)
(***************************************************************************)
StartsWith(s, p) == Len(s) >= Len(p) /\ SubSeq(s, 1, Len(p)) = p

Slice(s, n) == SubSeq(s, n + 1, Len(s))

WhiteSpace == {" ", "\t", CR, LF}

RECURSIVE TrimStart(_)
TrimStart(s) ==
  IF s # <<>> /\ s[1] \in WhiteSpace THEN TrimStart(Tail(s)) ELSE s

RECURSIVE TrimEnd(_)
TrimEnd(s) ==
  IF s # <<>> /\ s[Len(s)] \in WhiteSpace
    THEN TrimEnd(SubSeq(s, 1, Len(s) - 1)) ELSE s

Trim(s) == TrimEnd(TrimStart(s))

RECURSIVE JoinLines(_)
JoinLines(ls) ==
  IF ls = <<>> THEN <<>>
  ELSE IF Len(ls) = 1 THEN ls[1]
  ELSE ls[1] \o <<LF>> \o JoinLines(Tail(ls))

(***************************************************************************)
(* JSON.parse on the texts of this model: surrounding JSON white space is  *)
(* skipped, then a number (a run of digits), an empty object or a string   *)
(* without escapes is a value; everything else throws SyntaxError.         *)
(***************************************************************************)
Digits == {"1", "2"}

JsonParse(text) ==
  LET body == Trim(text)
      n == Len(body)
  IN  IF n >= 1 /\ \A k \in 1..n : body[k] \in Digits
        THEN [ok |-> TRUE, value |-> [kind |-> "number", text |-> body]]
      ELSE IF n >= 2 /\ body[1] = "{" /\ body[n] = "}"
              /\ \A k \in 2..(n - 1) : body[k] \in WhiteSpace
        THEN [ok |-> TRUE, value |-> [kind |-> "object", text |-> <<>>]]
      ELSE IF n >= 2 /\ body[1] = "\"" /\ body[n] = "\""
              /\ \A k \in 2..(n - 1) : body[k] \notin {"\"", "\\", "\t", CR, LF}
        THEN [ok |-> TRUE, value |-> [kind |-> "string", text |-> SubSeq(body, 2, n - 1)]]
      ELSE [ok |-> FALSE, value |-> [kind |-> "SyntaxError", text |-> <<>>]]

(***************************************************************************)
(* The literals of the code.                                               *)
(***************************************************************************)
EventPrefix == <<"e", "v", "e", "n", "t", ":">>
DataPrefix == <<"d", "a", "t", "a", ":">>
CommentPrefix == <<":">>
Message == <<"m", "e", "s", "s", "a", "g", "e">>
Post == <<"p", "o", "s", "t">>
Result == <<"r", "e", "s", "u", "l", "t">>
Title == <<"t", "i", "t", "l", "e">>

HandlerNames == {"onPost", "onResult", "onTitle", "onError"}
RoutedNames == {"onPost", "onResult", "onTitle"}

(***************************************************************************)
(* The input: the bytes the server sends, the caller's handlers (each      *)
(* absent, returning, or throwing when called) and the abort signal.       *)
(***************************************************************************)
MaxFrames == 2
MaxChunk == 10

CRLF == <<CR, LF>>

FramePost ==
  EventPrefix \o <<" ">> \o Post \o <<LF>> \o DataPrefix \o <<" ", "1">> \o <<LF, LF>>

FrameTitle ==
  EventPrefix \o Title \o CRLF
    \o DataPrefix \o <<"\"", LeadByte, ContByte, "\"">> \o CRLF \o CRLF

FrameBad == DataPrefix \o <<" ", "{">> \o <<LF, LF>>

\* A comment, then an object on two data lines with its event line between them.
FrameResult ==
  <<":", "c", LF>> \o DataPrefix \o <<"{", LF>>
    \o EventPrefix \o Result \o <<LF>> \o DataPrefix \o <<"}", LF, LF>>

\* Three frames of valid JSON no handler is registered for: the default
\* name, the empty name, and a name that only starts with "post".
FramesUnrouted ==
  DataPrefix \o <<" ", "1", LF, LF>>
    \o EventPrefix \o <<LF>> \o DataPrefix \o <<"1", "1", LF, LF>>
    \o EventPrefix \o <<" ">> \o Post \o <<"s", LF>> \o DataPrefix \o <<"{", "}", LF, LF>>

\* Blank lines with no data lines before them: at the start of the body,
\* after an "event:" line, and after the blank line that ends a frame.
FrameGaps ==
  <<LF>> \o EventPrefix \o Post \o <<LF, LF>>
    \o DataPrefix \o <<"1", LF, LF, LF>>

\* A frame whose one data line is empty, a frame of two empty data lines,
\* which join to a lone LF, and a frame with a payload.
FrameEmptyData ==
  EventPrefix \o Post \o <<LF>> \o DataPrefix \o <<" ", LF, LF>>
    \o DataPrefix \o <<LF>> \o DataPrefix \o <<LF, LF>>
    \o EventPrefix \o Post \o <<LF>> \o DataPrefix \o <<"2", LF, LF>>

\* A frame with lines of no supported field among its own: "id: 1",
\* "data" without a colon, "retry: 2" and a "data:" line after a space.
FrameUnsupported ==
  EventPrefix \o Post \o <<LF>> \o <<"i", "d", ":", " ", "1", LF>>
    \o DataPrefix \o <<"1", LF>> \o <<"d", "a", "t", "a", LF>>
    \o <<"r", "e", "t", "r", "y", ":", " ", "2", CR, LF>>
    \o <<" ">> \o DataPrefix \o <<"2", LF, LF>>

\* A frame with two "event:" lines, the second after its data line.
FrameRenamed ==
  EventPrefix \o <<" ">> \o Post \o <<LF>> \o DataPrefix \o <<" ", "1", LF>>
    \o EventPrefix \o <<" ">> \o Title \o <<" ", LF, LF>>

\* A body of two frames with different handlers, the second with CR LF.
FramesPostTitle == FramePost \o FrameTitle

\* The frames that follow one another in a body, and the bodies of their own.
Frames == {FramePost, FrameBad}
SingleFrames ==
  {FrameTitle, FramesPostTitle, FrameResult, FramesUnrouted, FrameGaps,
   FrameEmptyData, FrameUnsupported, FrameRenamed}

RECURSIVE Concat(_)
Concat(fs) == IF fs = <<>> THEN <<>> ELSE fs[1] \o Concat(Tail(fs))

Streams ==
  { Concat(fs) : fs \in UNION { [1..n -> Frames] : n \in 0..MaxFrames } }
    \cup SingleFrames

AllReturn == [h \in HandlerNames |-> "returns"]

HandlerConfigs ==
  { AllReturn,
    [AllReturn EXCEPT !["onError"] = "throws"],
    [AllReturn EXCEPT !["onPost"] = "throws"],
    [AllReturn EXCEPT !["onPost"] = "throws", !["onError"] = "throws"],
    [AllReturn EXCEPT !["onPost"] = "absent", !["onError"] = "absent"],
    [AllReturn EXCEPT !["onResult"] = "absent", !["onTitle"] = "absent"] }

VARIABLES
  stream,     \* the bytes of the response body
  pos,        \* how many of them reader.read() has returned
  handlers,   \* the caller's PostGenerationStreamHandlers
  aborted,    \* signal.aborted
  pc,         \* "poll", "reading", "closed" (resolved) or "rejected"
  pending,    \* the bytes the TextDecoder holds
  buffer, eventName, dataLines,
  trace,      \* the calls made so far: dispatch, handlers, releaseLock
  failure,    \* how the failed reader.read() failed, if one did
  exit,       \* how the try block was left: "done" or the error's name
  response,   \* what apiFetch gave: "pending", "ok", "notOk", "noBody", or
              \* how it rejected: "failed", "aborted"
  reader      \* the reader of the body: "none", "held" or "released"

vars ==
  <<stream, pos, handlers, aborted, pc, pending, buffer, eventName, dataLines,
    trace, failure, exit, response, reader>>

NoArg == [kind |-> "none", text |-> <<>>]
ErrorArg(name) == [kind |-> name, text |-> <<>>]
Call(op, at, event, data, arg) ==
  [op |-> op, at |-> at, event |-> event, data |-> data, arg |-> arg]

NoFailure == [name |-> "none", cause |-> "none"]

\* The reader's local state as one value; thrown is the exception in flight.
Cur ==
  [pending |-> pending, buffer |-> buffer, eventName |-> eventName,
   dataLines |-> dataLines, trace |-> trace, thrown |-> "none"]

(***************************************************************************)
(* handlers.onX?.(arg): nothing when the handler is absent; the call is    *)
(* made, and throws when the handler does.                                 *)
(***************************************************************************)
\* A call without the "?.": calling an absent handler throws a TypeError.
InvokeUnchecked(h, arg, at, m) ==
  IF handlers[h] = "absent" THEN [m EXCEPT !.thrown = "TypeError"]
  ELSE [m EXCEPT !.trace = Append(@, Call(h, at, <<>>, <<>>, arg)),
                 !.thrown = IF handlers[h] = "throws" THEN "Error" ELSE "none"]

Invoke(h, arg, at, m) ==
  IF handlers[h] = "absent" THEN m
  ELSE [m EXCEPT !.trace = Append(@, Call(h, at, <<>>, <<>>, arg)),
                 !.thrown = IF handlers[h] = "throws" THEN "Error" ELSE "none"]

\* The catch block of dispatch: whatever the try block threw goes to onError.
DispatchCatch(name, at, m) ==
  Invoke("onError", ErrorArg(name), at, [m EXCEPT !.thrown = "none"])

RouteTo(h, value, at, m) ==
  LET called == Invoke(h, value, at, m)
  IN  IF called.thrown # "none" THEN DispatchCatch(called.thrown, at, called)
      ELSE called

\* A dispatch that routes by the start of the event name.
DispatchBodyByPrefix(event, data, at, m) ==
  LET parsed == JsonParse(data)
  IN  IF ~parsed.ok THEN DispatchCatch("SyntaxError", at, m)
      ELSE IF StartsWith(event, Post) THEN RouteTo("onPost", parsed.value, at, m)
      ELSE IF StartsWith(event, Result) THEN RouteTo("onResult", parsed.value, at, m)
      ELSE IF StartsWith(event, Title) THEN RouteTo("onTitle", parsed.value, at, m)
      ELSE m

DispatchBody(event, data, at, m) ==
  LET parsed == JsonParse(data)
  IN  IF ~parsed.ok THEN DispatchCatch("SyntaxError", at, m)
      ELSE IF event = Post THEN RouteTo("onPost", parsed.value, at, m)
      ELSE IF event = Result THEN RouteTo("onResult", parsed.value, at, m)
      ELSE IF event = Title THEN RouteTo("onTitle", parsed.value, at, m)
      ELSE m

\* A dispatch without the check for an empty payload.
DispatchUnguarded(event, data, at, m) ==
  DispatchBody(event, data, at,
               [m EXCEPT !.trace = Append(@, Call("dispatch", at, event, data, NoArg))])

\* dispatch(event, data), entered from the loop or from the finally block.
Dispatch(event, data, at, m) ==
  LET entered == [m EXCEPT !.trace = Append(@, Call("dispatch", at, event, data, NoArg))]
  IN  IF data = <<>> THEN entered ELSE DispatchBody(event, data, at, entered)

(***************************************************************************)
(* One line of the for loop.  An exception leaving dispatch leaves the     *)
(* loop before the frame is reset.                                         *)
(***************************************************************************)
\* A reset that keeps the data lines of the frame.
ResetFrameKeepsData(m) == [m EXCEPT !.eventName = Message]

ResetFrame(m) == [m EXCEPT !.eventName = Message, !.dataLines = <<>>]

\* A loop body that keeps the first event name of a frame.
ProcessLineFirstEventWins(line, m) ==
  IF line = <<>>
    THEN LET d == IF m.dataLines # <<>>
                    THEN Dispatch(m.eventName, JoinLines(m.dataLines), "loop", m)
                    ELSE m
         IN  IF d.thrown # "none" THEN d ELSE ResetFrame(d)
  ELSE IF StartsWith(line, CommentPrefix) THEN m
  ELSE IF StartsWith(line, EventPrefix)
    THEN IF m.eventName = Message
           THEN [m EXCEPT !.eventName = Trim(Slice(line, Len(EventPrefix)))]
           ELSE m
  ELSE IF StartsWith(line, DataPrefix)
    THEN [m EXCEPT !.dataLines = Append(@, Trim(Slice(line, Len(DataPrefix))))]
  ELSE m

\* A loop body that takes every line that starts with "data" for a data line.
ProcessLineDataWithoutColon(line, m) ==
  IF line = <<>>
    THEN LET d == IF m.dataLines # <<>>
                    THEN Dispatch(m.eventName, JoinLines(m.dataLines), "loop", m)
                    ELSE m
         IN  IF d.thrown # "none" THEN d ELSE ResetFrame(d)
  ELSE IF StartsWith(line, CommentPrefix) THEN m
  ELSE IF StartsWith(line, EventPrefix)
    THEN [m EXCEPT !.eventName = Trim(Slice(line, Len(EventPrefix)))]
  ELSE IF StartsWith(line, <<"d", "a", "t", "a">>)
    THEN [m EXCEPT !.dataLines = Append(@, Trim(Slice(line, Len(DataPrefix))))]
  ELSE m

\* A loop body that dispatches the frame as soon as a data line has come.
ProcessLineEager(line, m) ==
  IF line = <<>> THEN ResetFrame(m)
  ELSE IF StartsWith(line, CommentPrefix) THEN m
  ELSE IF StartsWith(line, EventPrefix)
    THEN [m EXCEPT !.eventName = Trim(Slice(line, Len(EventPrefix)))]
  ELSE IF StartsWith(line, DataPrefix)
    THEN LET d == Dispatch(m.eventName, Trim(Slice(line, Len(DataPrefix))), "loop", m)
         IN  IF d.thrown # "none" THEN d ELSE ResetFrame(d)
  ELSE m

\* A loop body that parses the joined data on every blank line, without the
\* checks for no data lines and for an empty payload.
ProcessLineUnguarded(line, m) ==
  IF line = <<>>
    THEN LET d == DispatchBody(m.eventName, JoinLines(m.dataLines), "loop",
                    [m EXCEPT !.trace = Append(@, Call("dispatch", "loop", m.eventName,
                                                       JoinLines(m.dataLines), NoArg))])
         IN  IF d.thrown # "none" THEN d ELSE ResetFrame(d)
  ELSE IF StartsWith(line, CommentPrefix) THEN m
  ELSE IF StartsWith(line, EventPrefix)
    THEN [m EXCEPT !.eventName = Trim(Slice(line, Len(EventPrefix)))]
  ELSE IF StartsWith(line, DataPrefix)
    THEN [m EXCEPT !.dataLines = Append(@, Trim(Slice(line, Len(DataPrefix))))]
  ELSE m

\* A loop body that takes a comment line for the end of the frame.
ProcessLineCommentEndsFrame(line, m) ==
  IF line = <<>> \/ StartsWith(line, CommentPrefix)
    THEN LET d == IF m.dataLines # <<>>
                    THEN Dispatch(m.eventName, JoinLines(m.dataLines), "loop", m)
                    ELSE m
         IN  IF d.thrown # "none" THEN d ELSE ResetFrame(d)
  ELSE IF StartsWith(line, EventPrefix)
    THEN [m EXCEPT !.eventName = Trim(Slice(line, Len(EventPrefix)))]
  ELSE IF StartsWith(line, DataPrefix)
    THEN [m EXCEPT !.dataLines = Append(@, Trim(Slice(line, Len(DataPrefix))))]
  ELSE m

ProcessLine(line, m) ==
  IF line = <<>>
    THEN LET d == IF m.dataLines # <<>>
                    THEN Dispatch(m.eventName, JoinLines(m.dataLines), "loop", m)
                    ELSE m
         IN  IF d.thrown # "none" THEN d ELSE ResetFrame(d)
  ELSE IF StartsWith(line, CommentPrefix) THEN m
  ELSE IF StartsWith(line, EventPrefix)
    THEN [m EXCEPT !.eventName = Trim(Slice(line, Len(EventPrefix)))]
  ELSE IF StartsWith(line, DataPrefix)
    THEN [m EXCEPT !.dataLines = Append(@, Trim(Slice(line, Len(DataPrefix))))]
  ELSE m

\* A loop that walks the lines of a chunk from the last to the first.
RECURSIVE ProcessLinesBackwards(_, _)
ProcessLinesBackwards(lines, m) ==
  IF lines = <<>> \/ m.thrown # "none" THEN m
  ELSE ProcessLinesBackwards(SubSeq(lines, 1, Len(lines) - 1),
                             ProcessLine(lines[Len(lines)], m))

\* A loop that goes back to the read after the first line of the chunk.
ProcessLinesFirstOnly(lines, m) ==
  IF lines = <<>> THEN m ELSE ProcessLine(lines[1], m)

RECURSIVE ProcessLines(_, _)
ProcessLines(lines, m) ==
  IF lines = <<>> \/ m.thrown # "none" THEN m
  ELSE ProcessLines(Tail(lines), ProcessLine(lines[1], m))

\* The body of the while loop after a read that returned a chunk.
ProcessChunk(chunk, m) ==
  LET d == Decode(m.pending, chunk)
      pieces == SplitLines(m.buffer \o d.text)
  IN  ProcessLines(CompleteLines(pieces),
                   [m EXCEPT !.pending = d.pending, !.buffer = Remainder(pieces)])

(***************************************************************************)
(* The catch and finally blocks, which run without a suspension.  err is   *)
(* the name of the error that left the try block, "none" after break.      *)
(***************************************************************************)
\* A catch block that reports every error, the abort included.
CatchBlockReportsAll(err, m) ==
  IF err # "none" THEN Invoke("onError", ErrorArg(err), "catch", m) ELSE m

\* A catch block that reports the error and throws it again.
CatchBlockRethrows(err, m) ==
  IF err # "none" /\ err # "AbortError"
    THEN [Invoke("onError", ErrorArg(err), "catch", m) EXCEPT !.thrown = err]
    ELSE m

CatchBlock(err, m) ==
  IF err # "none" /\ err # "AbortError"
    THEN Invoke("onError", ErrorArg(err), "catch", m)
    ELSE m

\* A finally block that only releases the reader.
FinallyBlockNoFlush(m) ==
  [m EXCEPT !.trace = Append(@, Call("releaseLock", "finally", <<>>, <<>>, NoArg))]

\* A finally block that releases the reader before the final flush.
FinallyBlockReleaseFirst(m) ==
  LET released == [m EXCEPT
                     !.trace = Append(@, Call("releaseLock", "finally", <<>>, <<>>, NoArg)),
                     !.thrown = "none"]
      flushed == IF m.dataLines # <<>>
                   THEN Dispatch(m.eventName, JoinLines(m.dataLines), "finally", released)
                   ELSE released
  IN  IF flushed.thrown # "none" THEN flushed ELSE [flushed EXCEPT !.thrown = m.thrown]

FinallyBlock(m) ==
  LET flushed == IF m.dataLines # <<>>
                   THEN Dispatch(m.eventName, JoinLines(m.dataLines), "finally",
                                 [m EXCEPT !.thrown = "none"])
                   ELSE [m EXCEPT !.thrown = "none"]
  IN  IF flushed.thrown # "none" THEN flushed
      ELSE [flushed EXCEPT
              !.trace = Append(@, Call("releaseLock", "finally", <<>>, <<>>, NoArg)),
              !.thrown = m.thrown]

\* An exit that skips the final flush when the error is the abort.
UnwindQuietOnAbort(err, m) ==
  IF err = "AbortError"
    THEN FinallyBlockNoFlush([m EXCEPT !.thrown = "none"])
    ELSE FinallyBlock(CatchBlock(err, [m EXCEPT !.thrown = "none"]))

Unwind(err, m) == FinallyBlock(CatchBlock(err, [m EXCEPT !.thrown = "none"]))

\* The variables after the function has returned or thrown.
Leave(how, m) ==
  /\ exit' = how
  /\ pending' = m.pending
  /\ buffer' = m.buffer
  /\ eventName' = m.eventName
  /\ dataLines' = m.dataLines
  /\ trace' = m.trace
  /\ pc' = IF m.thrown = "none" THEN "closed" ELSE "rejected"
  /\ reader' = IF \E i \in 1..Len(m.trace) : m.trace[i].op = "releaseLock"
                 THEN "released" ELSE "held"
  /\ response' = response

(***************************************************************************)
(* The state machine.                                                      *)
(***************************************************************************)
Init ==
  /\ stream \in Streams
  /\ handlers \in HandlerConfigs
  /\ aborted = FALSE
  /\ pos = 0
  /\ pc = "fetch"
  /\ response = "pending"
  /\ reader = "none"
  /\ pending = <<>>
  /\ buffer = <<>>
  /\ eventName = Message
  /\ dataLines = <<>>
  /\ trace = <<>>
  /\ failure = NoFailure
  /\ exit = "none"

\* The caller aborts the signal.
Abort ==
  /\ pc \in {"fetch", "poll", "reading"}
  /\ ~aborted
  /\ aborted' = TRUE
  /\ UNCHANGED <<stream, pos, handlers, pc, pending, buffer, eventName,
                 dataLines, trace, failure, exit, response, reader>>

(***************************************************************************)
(* streamPostGeneration before the stream is read: apiFetch resolves with  *)
(* a response, which is streamed when it is ok and has a body and makes    *)
(* the function throw the built API error otherwise, or apiFetch rejects,  *)
(* as it does when the signal is aborted, and the function rejects.        *)
(***************************************************************************)
Responses == {"ok", "notOk", "noBody"}

\* A function that streams whatever response came.
RespondUnchecked(r) ==
  /\ pc = "fetch"
  /\ ~aborted
  /\ response' = r
  /\ pc' = "poll"
  /\ reader' = "held"
  /\ UNCHANGED <<stream, pos, handlers, aborted, pending, buffer, eventName,
                 dataLines, trace, failure, exit>>

Respond(r) ==
  /\ pc = "fetch"
  /\ ~aborted
  /\ response' = r
  /\ IF r = "ok"
       THEN pc' = "poll" /\ reader' = "held"
       ELSE pc' = "refused" /\ reader' = reader
  /\ UNCHANGED <<stream, pos, handlers, aborted, pending, buffer, eventName,
                 dataLines, trace, failure, exit>>

FetchRejects ==
  /\ pc = "fetch"
  /\ response' = IF aborted THEN "aborted" ELSE "failed"
  /\ pc' = "refused"
  /\ UNCHANGED <<stream, pos, handlers, aborted, pending, buffer, eventName,
                 dataLines, trace, failure, exit, reader>>

\* A loop that reads without looking at the signal.
PollNoCheck ==
  /\ pc = "poll"
  /\ pc' = "reading"
  /\ UNCHANGED <<stream, pos, handlers, aborted, pending, buffer, eventName,
                 dataLines, trace, failure, exit, response, reader>>

\* The top of the while loop: the poll of the signal, then reader.read().
Poll ==
  /\ pc = "poll"
  /\ IF aborted
       THEN Leave("AbortError", Unwind("AbortError", Cur))
       ELSE /\ pc' = "reading"
            /\ UNCHANGED <<pending, buffer, eventName, dataLines, trace, exit,
                           response, reader>>
  /\ UNCHANGED <<stream, pos, handlers, aborted, failure>>

\* reader.read() resolves with the next n bytes.
ReadChunk(n) ==
  /\ pc = "reading"
  /\ pos + n <= Len(stream)
  /\ LET m == ProcessChunk(SubSeq(stream, pos + 1, pos + n), Cur)
     IN  IF m.thrown # "none"
           THEN Leave(m.thrown, Unwind(m.thrown, m))
           ELSE /\ exit' = exit
                /\ pending' = m.pending
                /\ buffer' = m.buffer
                /\ eventName' = m.eventName
                /\ dataLines' = m.dataLines
                /\ trace' = m.trace
                /\ pc' = "poll"
                /\ UNCHANGED <<response, reader>>
  /\ pos' = pos + n
  /\ UNCHANGED <<stream, handlers, aborted, failure>>

\* reader.read() resolves with done: the server closed the body here.
ReadDone ==
  /\ pc = "reading"
  /\ Leave("done", Unwind("none", Cur))
  /\ UNCHANGED <<stream, pos, handlers, aborted, failure>>

\* reader.read() rejects because the connection failed.
ReadFail ==
  /\ pc = "reading"
  /\ failure' = [name |-> "TypeError", cause |-> "network"]
  /\ Leave("TypeError", Unwind("TypeError", Cur))
  /\ UNCHANGED <<stream, pos, handlers, aborted>>

\* reader.read() rejects because the signal aborted the fetch.
ReadAborted ==
  /\ pc = "reading"
  /\ aborted
  /\ failure' = [name |-> "AbortError", cause |-> "cancel"]
  /\ Leave("AbortError", Unwind("AbortError", Cur))
  /\ UNCHANGED <<stream, pos, handlers, aborted>>

Next ==
  \/ Abort
  \/ \E r \in Responses : Respond(r)
  \/ FetchRejects
  \/ Poll
  \/ \E n \in 1..MaxChunk : ReadChunk(n)
  \/ ReadDone
  \/ ReadFail
  \/ ReadAborted

Spec == Init /\ [][Next]_vars

(***************************************************************************)
(* What the claims speak of: the bytes received so far read as one text,   *)
(* and the frames of that text by the framing rules of the wire format.    *)
(***************************************************************************)
Ended == pc \in {"closed", "rejected"}

Received == SubSeq(stream, 1, pos)
ReceivedText == Decode(<<>>, Received).text
ReceivedLines == CompleteLines(SplitLines(ReceivedText))

NoFrames == [frames |-> <<>>, name |-> Message, data |-> <<>>]

FrameStep(f, line) ==
  IF line = <<>>
    THEN [frames |-> IF f.data # <<>>
                       THEN Append(f.frames, [event |-> f.name, data |-> JoinLines(f.data)])
                       ELSE f.frames,
          name |-> Message, data |-> <<>>]
  ELSE IF line[1] = ":" THEN f
  ELSE IF StartsWith(line, EventPrefix) THEN [f EXCEPT !.name = Trim(Slice(line, 6))]
  ELSE IF StartsWith(line, DataPrefix) THEN [f EXCEPT !.data = Append(@, Trim(Slice(line, 5)))]
  ELSE f

RECURSIVE FramesOf(_, _)
FramesOf(lines, f) ==
  IF lines = <<>> THEN f ELSE FramesOf(Tail(lines), FrameStep(f, lines[1]))

\* The frames a blank line has ended, and the frame still open, of the text received.
Framed == FramesOf(ReceivedLines, NoFrames)

HandlerFor(event) ==
  IF event = Post THEN "onPost"
  ELSE IF event = Result THEN "onResult"
  ELSE IF event = Title THEN "onTitle"
  ELSE "none"

\* A frame that has a handler to go to: valid JSON under a routed event name.
Deliverable(fr) ==
  /\ JsonParse(fr.data).ok
  /\ HandlerFor(fr.event) \in RoutedNames
  /\ handlers[HandlerFor(fr.event)] # "absent"

Malformed(fr) == fr.data # <<>> /\ ~JsonParse(fr.data).ok

Delivery(fr) == [op |-> HandlerFor(fr.event), arg |-> JsonParse(fr.data).value]

RECURSIVE Deliveries(_)
Deliveries(frames) ==
  IF frames = <<>> THEN <<>>
  ELSE (IF Deliverable(frames[1]) THEN <<Delivery(frames[1])>> ELSE <<>>)
         \o Deliveries(Tail(frames))

IsHandlerCall(e) == e.op \in HandlerNames
IsRoutedCall(e) == e.op \in RoutedNames
OpArg(e) == [op |-> e.op, arg |-> e.arg]

RECURSIVE MapOpArg(_)
MapOpArg(tr) == IF tr = <<>> THEN <<>> ELSE <<OpArg(tr[1])>> \o MapOpArg(Tail(tr))

HandlerCalls(tr) == MapOpArg(SelectSeq(tr, IsHandlerCall))
InLoop(e) == e.at = "loop"
RoutedLoopCalls(tr) == MapOpArg(SelectSeq(SelectSeq(tr, IsRoutedCall), InLoop))

IsPrefix(a, b) == Len(a) <= Len(b) /\ SubSeq(b, 1, Len(a)) = a

Count(tr, Test(_)) == Len(SelectSeq(tr, Test))
IsRelease(e) == e.op = "releaseLock"
IsOnError(e) == e.op = "onError"
IsFlush(e) == e.op = "dispatch" /\ e.at = "finally"

\* The text after the last line terminator received.
LastPiece == Remainder(SplitLines(ReceivedText))

\* The frame no blank line has ended yet, and its delivery by the final flush.
OpenFrame == [event |-> Framed.name, data |-> JoinLines(Framed.data)]

FlushDelivery ==
  IF Ended /\ Framed.data # <<>> /\ Deliverable(OpenFrame)
    THEN <<Delivery(OpenFrame)>> ELSE <<>>

MalformedFrames == SelectSeq(Framed.frames, Malformed)

IsDispatch(e) == e.op = "dispatch"
OnErrorInLoop(e) == e.op = "onError" /\ e.at = "loop"
OnErrorOnExit(e) == e.op = "onError" /\ e.at # "loop"
ReportedFailure(e) ==
  e.op = "onError" /\ e.at = "catch" /\ e.arg = ErrorArg(failure.name)

Flushes == SelectSeq(trace, IsFlush)

Fresh ==
  [pending |-> <<>>, buffer |-> <<>>, eventName |-> Message, dataLines |-> <<>>,
   trace |-> <<>>, thrown |-> "none"]

\* readSseStream on a body that delivers the bytes in one chunk and then ends.
SingleChunkRun(bytes) ==
  LET m == ProcessChunk(bytes, Fresh)
  IN  Unwind(m.thrown, m)

(***************************************************************************)
(* C1. Chunk-boundary invariance: when the body has ended (or a handler's  *)
(* exception has ended the run), the handler calls made, names and         *)
(* payloads in order, are those of the same bytes delivered as one chunk   *)
(* followed by end-of-stream, however the reads cut the bytes.             *)
(***************************************************************************)
ChunkBoundaryInvariance ==
  (Ended /\ exit \in {"done", "Error"})
    => HandlerCalls(trace) = HandlerCalls(SingleChunkRun(Received).trace)

\* Two frames, one with CR LF and a two-byte character, in more than one chunk.
ChunkBoundaryWitness ==
  /\ pc = "closed" /\ exit = "done"
  /\ pos = Len(stream) /\ pos > 2 * MaxChunk
  /\ \E i \in 1..pos : stream[i] = LeadByte
  /\ \E i \in 1..pos : stream[i] = CR
  /\ Len(HandlerCalls(trace)) = 2
  /\ HandlerCalls(trace)[2].arg = [kind |-> "string", text |-> <<EAcute>>]

(***************************************************************************)
(* C2. Reader release on every exit path: once readSseStream has ended,    *)
(* reader.releaseLock() has been called exactly once, and never twice      *)
(* before.                                                                 *)
(***************************************************************************)
ReleasedExactlyOnce ==
  /\ Count(trace, IsRelease) <= 1
  /\ Ended => Count(trace, IsRelease) = 1

(***************************************************************************)
(* C3. Dispatch order: the routed handler calls made from the read loop    *)
(* are, in order, the deliveries of the frames of the received text in the *)
(* order of their terminating blank lines, with none skipped before the    *)
(* last one made.                                                          *)
(***************************************************************************)
DispatchOrder == IsPrefix(RoutedLoopCalls(trace), Deliveries(Framed.frames))

DispatchOrderWitness ==
  /\ Len(RoutedLoopCalls(trace)) = 2
  /\ RoutedLoopCalls(trace)[1] # RoutedLoopCalls(trace)[2]
  /\ RoutedLoopCalls(trace) = Deliveries(Framed.frames)

(***************************************************************************)
(* C4. Exactly-once dispatch: the routed handler calls of a run are one    *)
(* call per frame that a blank line has ended, that parses and that has a  *)
(* handler, in order, followed only by the call of the final flush for a   *)
(* frame still open when the run ends.                                     *)
(***************************************************************************)
ExactlyOnceDispatch ==
  MapOpArg(SelectSeq(trace, IsRoutedCall)) = Deliveries(Framed.frames) \o FlushDelivery

(***************************************************************************)
(* C5. Cancellation quiet: when the poll of the signal has ended the run,  *)
(* onError has not been called from the catch or the finally block, and    *)
(* the reader has been released exactly once.                              *)
(***************************************************************************)
CancellationQuiet ==
  (Ended /\ exit = "AbortError" /\ failure = NoFailure)
    => /\ Count(trace, OnErrorOnExit) = 0
       /\ Count(trace, IsRelease) = 1

(***************************************************************************)
(* C6. Terminal flush at EOF: when the body ends after the lines of a      *)
(* frame with data and before its blank line, the finally block dispatches *)
(* that frame once, under its event name and with its data lines joined    *)
(* by LF, after one dispatch per earlier frame and before the release.     *)
(***************************************************************************)
TerminalFlush ==
  (Ended /\ exit = "done" /\ LastPiece = <<>> /\ Framed.data # <<>>)
    => /\ Len(Flushes) = 1
       /\ Flushes[1].event = OpenFrame.event
       /\ Flushes[1].data = OpenFrame.data
       /\ Count(trace, IsDispatch) = Len(Framed.frames) + 1
       /\ \A i \in 1..Len(trace) :
            IsRelease(trace[i]) => \E j \in 1..(i - 1) : IsFlush(trace[j])

\* "data: {", a blank line, "event: post", "data: 1" and its LF, then the end.
TerminalFlushWitness ==
  /\ pc = "closed" /\ exit = "done"
  /\ LastPiece = <<>>
  /\ Framed.data = << <<"1">> >> /\ Framed.name = Post
  /\ Len(Framed.frames) = 1
  /\ trace[Len(trace) - 1] =
       Call("onPost", "finally", <<>>, <<>>, [kind |-> "number", text |-> <<"1">>])

(***************************************************************************)
(* C7. Trailing unterminated line: when the body ends with a "data:" line  *)
(* that has a value and no terminator, the finally block flushes a frame   *)
(* whose data end with that line's value.                                  *)
(***************************************************************************)
TrailingLineKept ==
  (Ended /\ exit = "done" /\ StartsWith(LastPiece, DataPrefix)
     /\ Trim(Slice(LastPiece, 5)) # <<>>)
    => \E i \in 1..Len(Flushes) :
         Flushes[i].data = JoinLines(Append(Framed.data, Trim(Slice(LastPiece, 5))))

(***************************************************************************)
(* C8. Partial-error isolation: with routed handlers that return, a frame  *)
(* whose data is not JSON does not end the read loop, the loop has called  *)
(* onError once per such frame, and the routed calls are those of the      *)
(* other frames.                                                           *)
(***************************************************************************)
PartialErrorIsolation ==
  (/\ handlers["onError"] # "absent"
   /\ \A h \in RoutedNames : handlers[h] = "returns"
   /\ MalformedFrames # <<>>)
    => /\ exit # "Error"
       /\ Count(trace, OnErrorInLoop) = Len(MalformedFrames)
       /\ RoutedLoopCalls(trace) = Deliveries(Framed.frames)

(***************************************************************************)
(* C9. Error reporting of read failures: when reader.read() has failed and *)
(* the caller gave an onError, the catch block has called onError with     *)
(* that error if and only if the failure was not caused by the abort.      *)
(***************************************************************************)
ReadFailureReporting ==
  (Ended /\ failure # NoFailure /\ handlers["onError"] # "absent")
    => (Count(trace, ReportedFailure) = 1 <=> failure.cause # "cancel")

\* A read the abort made fail, with a malformed frame open: nothing reported.
ReadFailureReportingWitness ==
  /\ Ended /\ failure.cause = "cancel" /\ handlers["onError"] = "returns"
  /\ dataLines # <<>>
  /\ Count(trace, ReportedFailure) = 0

(***************************************************************************)
(* C10. Transport error terminates the stream: after the catch block has   *)
(* called onError for a failed read, no call of onPost, onResult or        *)
(* onTitle follows.                                                        *)
(***************************************************************************)
TransportErrorTerminates ==
  \A i \in 1..Len(trace) :
    (failure.cause = "network" /\ ReportedFailure(trace[i]))
      => \A j \in (i + 1)..Len(trace) : ~IsRoutedCall(trace[j])

(***************************************************************************)
(* C11. Sources of onError: every call of onError either follows at once   *)
(* the dispatch of a frame whose joined data is not JSON, with the         *)
(* SyntaxError, or is the catch block's report of a read that failed for a *)
(* reason other than the abort.  Stated of the callers whose onError       *)
(* returns, so that no call is the report of onError's own exception.      *)
(***************************************************************************)
ParseFailureReport(i) ==
  /\ i > 1
  /\ IsDispatch(trace[i - 1])
  /\ trace[i - 1].at = trace[i].at
  /\ ~JsonParse(trace[i - 1].data).ok
  /\ trace[i].arg = ErrorArg("SyntaxError")

OnErrorSources ==
  \A i \in 1..Len(trace) :
    (handlers["onError"] = "returns" /\ IsOnError(trace[i]))
      => \/ ParseFailureReport(i)
         \/ failure.cause = "network" /\ ReportedFailure(trace[i])

(***************************************************************************)
(* C12. Closed routing: a dispatch whose data parse as JSON calls the      *)
(* handler of its event name, once and with the parsed value, when the     *)
(* name is exactly "post", "result" or "title", and calls no other routed  *)
(* handler; under any other name it calls no handler at all, onError       *)
(* included.                                                               *)
(***************************************************************************)
\* The handler calls dispatch made at trace[i]: those up to the next entry
\* that is a dispatch, a release or a call of the catch block.
RECURSIVE CallsFrom(_, _)
CallsFrom(tr, k) ==
  IF k > Len(tr) \/ ~IsHandlerCall(tr[k]) \/ tr[k].at = "catch" THEN <<>>
  ELSE <<OpArg(tr[k])>> \o CallsFrom(tr, k + 1)

IsRoutedOpArg(c) == c.op \in RoutedNames

ClosedRouting ==
  \A i \in 1..Len(trace) :
    (IsDispatch(trace[i]) /\ JsonParse(trace[i].data).ok)
      => LET h == HandlerFor(trace[i].event)
             made == CallsFrom(trace, i + 1)
         IN  IF h \in RoutedNames
               THEN SelectSeq(made, IsRoutedOpArg) =
                      IF handlers[h] = "absent" THEN <<>>
                      ELSE << [op |-> h, arg |-> JsonParse(trace[i].data).value] >>
               ELSE made = <<>>

\* The body of three unrouted frames read to its end, and nothing called.
ClosedRoutingWitness ==
  /\ pc = "closed" /\ exit = "done"
  /\ handlers = AllReturn
  /\ Count(trace, IsDispatch) = 3
  /\ trace[1].event = Message /\ trace[2].event = <<>>
  /\ trace[3].event = Post \o <<"s">>
  /\ \A i \in 1..3 : JsonParse(trace[i].data).ok
  /\ Count(trace, IsHandlerCall) = 0

(***************************************************************************)
(* C13. PendingFrame reset: when the last line received is a blank line    *)
(* and the loop has come to it, the event name is "message" and there are  *)
(* no data lines, whether the blank line made a dispatch that reached a    *)
(* handler, one whose parse failed, one no handler took, or no dispatch.   *)
(***************************************************************************)
\* The text received ends with a blank line and its terminator.
LastLineBlank ==
  /\ buffer = <<>> /\ pending = <<>>
  /\ ReceivedLines # <<>> /\ ReceivedLines[Len(ReceivedLines)] = <<>>

\* The frame that was open when the last line received came.
FrameBeforeLastLine ==
  FramesOf(SubSeq(ReceivedLines, 1, Len(ReceivedLines) - 1), NoFrames)

LoopDispatch(e) == e.op = "dispatch" /\ e.at = "loop"

\* The loop came to the last line received: it made that line's dispatch,
\* or the line asked for none and no exception had ended the loop.
LastLineReached ==
  IF FrameBeforeLastLine.data # <<>>
    THEN Count(trace, LoopDispatch) = Len(Framed.frames)
    ELSE exit # "Error"

PendingFrameReset ==
  (LastLineBlank /\ LastLineReached)
    => eventName = Message /\ dataLines = <<>>

(***************************************************************************)
(* C14. Comment neutrality: when the body has ended after a line           *)
(* terminator, the run over the bytes received with one or two comment     *)
(* lines put at any one line boundary leaves the loop with the event name  *)
(* and the data lines this run left it with, and makes the handler calls   *)
(* this run has made, names and payloads in order.                         *)
(***************************************************************************)
\* The line boundaries of a body: its start and the place after each LF.
LineStarts(bytes) == {0} \cup {i \in 1..Len(bytes) : bytes[i] = LF}

InsertAt(bytes, k, ins) ==
  SubSeq(bytes, 1, k) \o ins \o SubSeq(bytes, k + 1, Len(bytes))

CommentLines ==
  { <<":">> \o DataPrefix \o <<"1", CR, LF>>,
    <<":", LF, ":", " ">> \o EventPrefix \o Title \o <<LF>> }

\* The run is over and the bytes received end where a line ends.
EndedAtLineEnd ==
  Ended /\ exit \in {"done", "Error"} /\ buffer = <<>> /\ pending = <<>>

CommentNeutrality ==
  EndedAtLineEnd
    => \A k \in LineStarts(Received) : \A c \in CommentLines :
         LET m == ProcessChunk(InsertAt(Received, k, c), Fresh)
         IN  /\ m.eventName = eventName
             /\ m.dataLines = dataLines
             /\ HandlerCalls(Unwind(m.thrown, m).trace) = HandlerCalls(trace)

\* Two frames delivered, and the line boundary between the "event:" line and
\* the "data:" line of the second.
CommentNeutralityWitness ==
  /\ pc = "closed" /\ exit = "done" /\ pos = Len(stream)
  /\ Len(HandlerCalls(trace)) = 2
  /\ \E k \in LineStarts(Received) :
       /\ FramesOf(CompleteLines(SplitLines(Decode(<<>>, SubSeq(Received, 1, k)).text)),
                   NoFrames).name = Title
       /\ Len(HandlerCalls(SingleChunkRun(InsertAt(Received, k, <<":", LF>>)).trace)) = 2

(***************************************************************************)
(* C15. Blank-line neutrality, as claimed: with a blank line put at any    *)
(* line boundary of the bytes received at which the open frame has no data *)
(* lines, the run over the new bytes makes the handler calls, names and    *)
(* payloads in order, that the run has made when the body has ended after  *)
(* a line terminator.                                                      *)
(***************************************************************************)
\* The open frame at the line boundary k of the bytes received.
FrameAt(k) ==
  FramesOf(CompleteLines(SplitLines(Decode(<<>>, SubSeq(Received, 1, k)).text)),
           NoFrames)

BlankLines == { <<LF>>, <<CR, LF, LF>> }

SameCallsWithBlankLineAt(k) ==
  \A b \in BlankLines :
    HandlerCalls(SingleChunkRun(InsertAt(Received, k, b)).trace) = HandlerCalls(trace)

BlankLineNeutralityAsClaimed ==
  EndedAtLineEnd
    => \A k \in LineStarts(Received) :
         FrameAt(k).data = <<>> => SameCallsWithBlankLineAt(k)

(***************************************************************************)
(* C15, amended. The same of the line boundaries at which the open frame   *)
(* has no data lines and the default event name: no "event:" line has come *)
(* since the last blank line.                                              *)
(***************************************************************************)
BlankLineNeutrality ==
  EndedAtLineEnd
    => \A k \in LineStarts(Received) :
         (FrameAt(k).data = <<>> /\ FrameAt(k).name = Message)
           => SameCallsWithBlankLineAt(k)

\* Two frames delivered, and the boundary between them.
BlankLineNeutralityWitness ==
  /\ pc = "closed" /\ exit = "done" /\ pos = Len(stream)
  /\ Len(HandlerCalls(trace)) = 2
  /\ \E k \in LineStarts(Received) :
       /\ 0 < k /\ k < pos
       /\ FrameAt(k).data = <<>> /\ FrameAt(k).name = Message
       /\ Len(FrameAt(k).frames) = 1
       /\ SameCallsWithBlankLineAt(k)

(***************************************************************************)
(* C16. Cancellation poll before read: a loop iteration that starts with   *)
(* the signal aborted issues no read and ends the run, and a run that has  *)
(* ended issues no read and receives no byte ever again.                   *)
(***************************************************************************)
PollBeforeRead ==
  [][ /\ (pc = "poll" /\ aborted) => (pc' \in {"closed", "rejected"} /\ pos' = pos)
      /\ Ended => (pc' = pc /\ pos' = pos) ]_vars

\* The poll has seen the abort after one read and with bytes still to come.
PollBeforeReadWitness ==
  /\ Ended /\ aborted
  /\ exit = "AbortError" /\ failure = NoFailure
  /\ 0 < pos /\ pos < Len(stream)

(***************************************************************************)
(* C17. Final partial frame on cancellation: when the abort has ended the  *)
(* run with data lines in the open frame, the finally block has dispatched *)
(* that frame once, under its event name and with its data lines joined,   *)
(* the loop has not dispatched it, and no release comes before the         *)
(* dispatch; with no data lines the exit has dispatched nothing and called *)
(* no handler.                                                             *)
(***************************************************************************)
OnExit(e) == e.at # "loop" /\ ~IsRelease(e)

FlushOnCancellation ==
  (Ended /\ exit = "AbortError")
    => IF Framed.data # <<>>
         THEN /\ Len(Flushes) = 1
              /\ Flushes[1].event = OpenFrame.event
              /\ Flushes[1].data = OpenFrame.data
              /\ Count(trace, LoopDispatch) = Len(Framed.frames)
              /\ \A i \in 1..Len(trace) :
                   IsRelease(trace[i]) => \E j \in 1..(i - 1) : IsFlush(trace[j])
         ELSE Count(trace, OnExit) = 0

\* The poll saw the abort after "event: post" and "data: 1": onPost, then release.
FlushOnCancellationWitness ==
  /\ pc = "closed" /\ exit = "AbortError" /\ failure = NoFailure
  /\ Framed.data = << <<"1">> >> /\ Framed.name = Post
  /\ Len(trace) >= 3
  /\ trace[Len(trace) - 1] =
       Call("onPost", "finally", <<>>, <<>>, [kind |-> "number", text |-> <<"1">>])
  /\ IsRelease(trace[Len(trace)])

(***************************************************************************)
(* C18. Cooperative cancellation terminates: a run that has ended after    *)
(* the abort was requested has ended with the reader released, once.  (The *)
(* ended states are final: a run that ends without the release never       *)
(* reaches the closed state with the reader released.)                     *)
(***************************************************************************)
CancellationCloses ==
  (aborted /\ Ended) => Count(trace, IsRelease) = 1

(***************************************************************************)
(* C19. No parallel reads: while a read is outstanding, every line of the  *)
(* chunks the earlier reads returned has been processed: the loop has made *)
(* the dispatch of every frame a blank line has ended, the open frame and  *)
(* the line buffer are those of the text received, and nothing of the exit *)
(* path has run.  (The run is at one place at a time, pc, and is at the    *)
(* read at most once.)                                                     *)
(***************************************************************************)
ReadAfterProcessing ==
  pc = "reading"
    => /\ Count(trace, LoopDispatch) = Len(Framed.frames)
       /\ RoutedLoopCalls(trace) = Deliveries(Framed.frames)
       /\ eventName = Framed.name
       /\ dataLines = Framed.data
       /\ buffer = LastPiece
       /\ Count(trace, OnExit) = 0
       /\ Count(trace, IsRelease) = 0

\* A read issued after a frame, the "event:" line of the next and the start
\* of its "data:" line.
ReadAfterProcessingWitness ==
  /\ pc = "reading"
  /\ Len(Framed.frames) = 1
  /\ Len(RoutedLoopCalls(trace)) = 1
  /\ eventName = Post
  /\ buffer # <<>>

(***************************************************************************)
(* C20. Dispatch trigger while reading: the dispatches the loop has made   *)
(* are, one by one and in order, those of the frames that a blank line     *)
(* after at least one data line has ended in the text received; every      *)
(* handler call of the loop is made within one of them; and while no such  *)
(* blank line has come, no handler has been called unless the body's end,  *)
(* a failed read or the abort has ended the loop.                          *)
(***************************************************************************)
WithinLoopDispatch(i) ==
  \E j \in 1..(i - 1) :
    /\ LoopDispatch(trace[j]) /\ trace[j].data # <<>>
    /\ \A k \in (j + 1)..(i - 1) : IsHandlerCall(trace[k]) /\ InLoop(trace[k])

LoopDispatches == SelectSeq(trace, LoopDispatch)

DispatchTrigger ==
  LET made == LoopDispatches
      ended == Framed.frames
  IN  /\ Len(made) <= Len(ended)
      /\ \A n \in 1..Len(made) :
           made[n].event = ended[n].event /\ made[n].data = ended[n].data
      /\ \A i \in 1..Len(trace) :
           (IsHandlerCall(trace[i]) /\ InLoop(trace[i])) => WithinLoopDispatch(i)
      /\ (exit \in {"none", "Error"} /\ ended = <<>>)
           => Count(trace, IsHandlerCall) = 0

\* One frame delivered, then chunks that end inside the next frame, after its
\* data line: one handler call, and the loop goes on.
DispatchTriggerWitness ==
  /\ pc = "poll" /\ exit = "none"
  /\ Len(Framed.frames) = 1
  /\ dataLines # <<>>
  /\ Count(trace, IsHandlerCall) = 1

(***************************************************************************)
(* C21. Frame isolation of data lines: the data of every dispatch are the  *)
(* trimmed values of the "data:" lines of one frame of the text received,  *)
(* in order and joined by LF, with no line of another frame: the n-th      *)
(* dispatch of the loop has the data of the n-th frame, and the dispatch   *)
(* of the finally block has the data of the open frame, or, when an        *)
(* exception ended the loop at the blank line of a frame, of that frame.   *)
(***************************************************************************)
FlushedFrameData ==
  IF exit = "Error"
    THEN Framed.frames[Len(LoopDispatches)].data
    ELSE JoinLines(Framed.data)

AfterLastLF(text) ==
  LET ends == {i \in 1..Len(text) : text[i] = LF}
      last == IF ends = {} THEN 0 ELSE CHOOSE i \in ends : \A j \in ends : j <= i
  IN  SubSeq(text, last + 1, Len(text))

LineBufferInvariant ==
  /\ buffer = AfterLastLF(ReceivedText)
  /\ \A i \in 1..Len(buffer) : buffer[i] # LF
  /\ pc = "poll" => (eventName = Framed.name /\ dataLines = Framed.data)

\* A chunk that ended between the CR and the LF of a "data:" line.
LineBufferWitness ==
  /\ pc = "poll"
  /\ eventName = Title /\ dataLines = <<>>
  /\ StartsWith(buffer, DataPrefix)
  /\ buffer[Len(buffer)] = CR

(***************************************************************************)
(* C23. Empty payload: a dispatch of the loop whose joined data are empty  *)
(* calls no handler, onError included, and the frame is reset after it; a  *)
(* dispatch whose joined data are not empty is parsed: when they are not   *)
(* JSON, onError, if given, is called at once with the SyntaxError.        *)
(***************************************************************************)
EmptyPayload ==
  /\ \A i \in 1..Len(trace) :
       IsDispatch(trace[i])
         => IF trace[i].data = <<>>
              THEN CallsFrom(trace, i + 1) = <<>>
              ELSE (~JsonParse(trace[i].data).ok /\ handlers["onError"] # "absent")
                     => /\ i < Len(trace)
                        /\ trace[i + 1] =
                             Call("onError", trace[i].at, <<>>, <<>>, ErrorArg("SyntaxError"))
  /\ (/\ LastLineBlank
      /\ FrameBeforeLastLine.data # <<>>
      /\ JoinLines(FrameBeforeLastLine.data) = <<>>
      /\ Count(trace, LoopDispatch) = Len(Framed.frames))
       => /\ LoopDispatches[Len(LoopDispatches)].data = <<>>
          /\ eventName = Message /\ dataLines = <<>>

\* An empty payload under "post", then two empty data lines that join to an
\* LF and are reported, then a payload that reaches onPost.
EmptyPayloadWitness ==
  /\ pc = "poll" /\ handlers = AllReturn
  /\ Len(trace) = 5
  /\ LoopDispatch(trace[1]) /\ trace[1].data = <<>> /\ trace[1].event = Post
  /\ LoopDispatch(trace[2]) /\ trace[2].data = <<LF>>
  /\ IsOnError(trace[3])
  /\ trace[5].op = "onPost"

(***************************************************************************)
(* C24. Unsupported lines are ignored: when the body has ended after a     *)
(* line terminator, the run over the bytes received with a line that       *)
(* starts with none of ":", "event:" and "data:" put at any one line       *)
(* boundary leaves the loop with the event name, the data lines and the    *)
(* line buffer this run left it with, and makes the handler calls this run *)
(* has made.                                                               *)
(***************************************************************************)
UnsupportedLines ==
  { <<"i", "d", ":", " ", "1", LF>>,
    <<"d", "a", "t", "a", LF>>,
    <<" ">> \o EventPrefix \o Title \o <<CR, LF>> }

UnsupportedLinesIgnored ==
  EndedAtLineEnd
    => \A k \in LineStarts(Received) : \A u \in UnsupportedLines :
         LET m == ProcessChunk(InsertAt(Received, k, u), Fresh)
         IN  /\ m.eventName = eventName
             /\ m.dataLines = dataLines
             /\ m.buffer = buffer
             /\ HandlerCalls(Unwind(m.thrown, m).trace) = HandlerCalls(trace)

\* The body with "id: 1", "data", "retry: 2" and " data:2" among the lines of
\* its frame, read to its end: onPost is called with 1, and nothing else.
UnsupportedLinesWitness ==
  /\ pc = "closed" /\ exit = "done" /\ buffer = <<>>
  /\ stream = FrameUnsupported /\ pos = Len(stream)
  /\ HandlerCalls(trace) =
       << [op |-> "onPost", arg |-> [kind |-> "number", text |-> <<"1">>]] >>

(***************************************************************************)
(* C25. Optional handlers: with some handlers absent and none that throws, *)
(* no absent handler is called; the run makes the dispatches, one per      *)
(* frame and in order, and the calls of the handlers that are given which  *)
(* it makes when all four are given, a routed call for each frame of valid *)
(* JSON under a handler's name and an onError call for each malformed      *)
(* frame; and it ends resolved, with the reader released once, last.       *)
(***************************************************************************)
SomeAbsentNoneThrows ==
  /\ \E h \in HandlerNames : handlers[h] = "absent"
  /\ \A h \in HandlerNames : handlers[h] # "throws"

\* The calls of one dispatch when every handler is given and returns.
CallsWhenGiven(fr) ==
  IF fr.data = <<>> THEN <<>>
  ELSE IF ~JsonParse(fr.data).ok
    THEN << [op |-> "onError", arg |-> ErrorArg("SyntaxError")] >>
  ELSE IF HandlerFor(fr.event) \in RoutedNames THEN << Delivery(fr) >>
  ELSE <<>>

RECURSIVE LoopCallsWhenGiven(_)
LoopCallsWhenGiven(frames) ==
  IF frames = <<>> THEN <<>>
  ELSE CallsWhenGiven(frames[1]) \o LoopCallsWhenGiven(Tail(frames))

IsGiven(c) == handlers[c.op] # "absent"
LoopHandlerCall(e) == IsHandlerCall(e) /\ InLoop(e)

OptionalHandlers ==
  SomeAbsentNoneThrows
    => /\ \A i \in 1..Len(trace) :
            IsHandlerCall(trace[i]) => handlers[trace[i].op] # "absent"
       /\ Len(LoopDispatches) = Len(Framed.frames)
       /\ MapOpArg(SelectSeq(trace, LoopHandlerCall))
            = SelectSeq(LoopCallsWhenGiven(Framed.frames), IsGiven)
       /\ eventName = Framed.name /\ dataLines = Framed.data
       /\ Ended => /\ pc = "closed"
                    /\ Count(trace, IsRelease) = 1
                    /\ IsRelease(trace[Len(trace)])
                    /\ (failure.cause = "network" /\ handlers["onError"] = "absent")
                         => Count(trace, IsOnError) = 0

\* Without onPost and onError: a malformed frame and a "post" frame pass
\* with no call, a read fails, and the run ends released.
OptionalHandlersWitness ==
  /\ handlers["onPost"] = "absent" /\ handlers["onError"] = "absent"
  /\ pc = "closed" /\ failure.cause = "network"
  /\ Len(MalformedFrames) = 1 /\ Len(Framed.frames) = 2
  /\ Framed.frames[2].event = Post
  /\ Len(trace) = 3 /\ IsRelease(trace[3])

(***************************************************************************)
(* C26. Throwing handlers do not break release or exactly-once: when an    *)
(* exception has left dispatch, the run ends with the reader released      *)
(* once, and when it left the dispatch of the loop, the finally block does *)
(* not dispatch that frame again.                                          *)
(***************************************************************************)
ThrowingHandlersSafe ==
  (Ended /\ (exit = "Error" \/ pc = "rejected"))
    => /\ Count(trace, IsRelease) = 1
       /\ exit = "Error" => Len(Flushes) = 0

(***************************************************************************)
(* C27. Quiescence after close: once reader.releaseLock() has been called, *)
(* it is the last call made, the final flush and the report of a failed    *)
(* read before it, and the run has ended: it is not at the poll or at a    *)
(* read.                                                                   *)
(***************************************************************************)
QuiescentAfterRelease ==
  \A i \in 1..Len(trace) :
    IsRelease(trace[i]) => (i = Len(trace) /\ Ended)

\* A failed read reported, then the open frame flushed to onPost, then the
\* release.
QuiescentAfterReleaseWitness ==
  /\ pc = "closed" /\ failure.cause = "network"
  /\ Len(trace) = 4
  /\ ReportedFailure(trace[1])
  /\ IsFlush(trace[2])
  /\ trace[3].op = "onPost"
  /\ IsRelease(trace[4])

(***************************************************************************)
(* C28. Streaming errors never reject: with handlers of which none throws, *)
(* readSseStream never ends rejected: it resolves when the body ended,     *)
(* when a read failed and when the abort was seen alike; and               *)
(* streamPostGeneration has rejected only before the stream was read, when *)
(* apiFetch rejected or the response was not ok or had no body, with no    *)
(* reader, no byte read and no call made.                                  *)
(***************************************************************************)
NoHandlerThrows == \A h \in HandlerNames : handlers[h] # "throws"

StreamingNeverRejects ==
  NoHandlerThrows
    => /\ pc # "rejected"
       /\ Ended => (pc = "closed" /\ exit \in {"done", "TypeError", "AbortError"})
       /\ pc = "refused"
            => /\ response \in {"failed", "aborted", "notOk", "noBody"}
               /\ reader = "none" /\ trace = <<>> /\ pos = 0 /\ exit = "none"

\* A read failed after bytes had come, was reported, and the run resolved.
StreamingNeverRejectsWitness ==
  /\ NoHandlerThrows /\ handlers["onError"] = "returns"
  /\ pc = "closed" /\ exit = "TypeError" /\ failure.cause = "network"
  /\ pos > 0
  /\ Count(trace, ReportedFailure) = 1

(***************************************************************************)
(* C29. Rejected response acquires nothing: once apiFetch has resolved     *)
(* with a response that is not ok or has no body, streamPostGeneration has *)
(* thrown and stays so, with no reader acquired, no byte read and no       *)
(* handler called.                                                         *)
(***************************************************************************)
RejectedResponseAcquiresNothing ==
  response \in {"notOk", "noBody"}
    => /\ pc = "refused"
       /\ reader = "none"
       /\ pos = 0
       /\ trace = <<>>

\* A response that is not ok, with a body that holds a frame.
RejectedResponseWitness ==
  /\ response = "notOk" /\ pc = "refused"
  /\ stream = FramePost /\ handlers = AllReturn

(***************************************************************************)
(* C30. Last event name wins: the dispatch a blank line makes has the      *)
(* trimmed value of the last "event:" line that came after the preceding   *)
(* blank line, "message" when there is none, wherever that line stands     *)
(* among the "data:" lines, and has all the data lines that came after the *)
(* preceding blank line, those before an "event:" line included.           *)
(***************************************************************************)
\* The lines after the last blank line of a list of lines.
LastSegment(lines) ==
  LET blanks == {i \in 1..Len(lines) : lines[i] = <<>>}
      last == IF blanks = {} THEN 0 ELSE CHOOSE i \in blanks : \A j \in blanks : j <= i
  IN  SubSeq(lines, last + 1, Len(lines))

RECURSIVE LastEventName(_)
LastEventName(lines) ==
  IF lines = <<>> THEN Message
  ELSE IF StartsWith(lines[Len(lines)], EventPrefix)
    THEN Trim(Slice(lines[Len(lines)], 6))
  ELSE LastEventName(SubSeq(lines, 1, Len(lines) - 1))

RECURSIVE DataValues(_)
DataValues(lines) ==
  IF lines = <<>> THEN <<>>
  ELSE (IF StartsWith(lines[1], DataPrefix) THEN << Trim(Slice(lines[1], 5)) >> ELSE <<>>)
         \o DataValues(Tail(lines))

LastEventNameWins ==
  LET segment == LastSegment(SubSeq(ReceivedLines, 1, Len(ReceivedLines) - 1))
  IN  (/\ LastLineBlank
       /\ DataValues(segment) # <<>>
       /\ Len(LoopDispatches) = Len(Framed.frames))
        => /\ LoopDispatches[Len(LoopDispatches)].event = LastEventName(segment)
           /\ LoopDispatches[Len(LoopDispatches)].data = JoinLines(DataValues(segment))

\* "event: post", "data: 1", "event: title" and a blank line: onTitle gets 1.
LastEventNameWinsWitness ==
  /\ pc = "poll" /\ handlers = AllReturn
  /\ stream = FrameRenamed /\ pos = Len(stream)
  /\ Len(trace) = 2
  /\ trace[1].event = Title
  /\ trace[2] = Call("onTitle", "loop", <<>>, <<>>, [kind |-> "number", text |-> <<"1">>])

====
